---- MODULE Spec2Model ----
(***************************************************************************)
(* Model of racing/db/races.go: the races repository.                      *)
(*                                                                         *)
(*   Spec / FairSpec : the one-time initialisation gate (racesRepo.Init,   *)
(*                     a sync.Once around seed) run by concurrent callers. *)
(*   SpecRead        : the read operations Get and List over a store,      *)
(*                     with the query builders applyFilter / applyOrder    *)
(*                     and the row mapper getDBRace / scanRaces.           *)
(*   SpecBuild       : List over every filter and order input, for the     *)
(*                     properties of the generated query and arguments.    *)
(*                                                                         *)
(* SQL text is modelled as a sequence of fragments; every placeholder "?"  *)
(* is a fragment of its own, so placeholders can be counted.               *)
(***************************************************************************)
EXTENDS Integers, Sequences, FiniteSets, TLC

\* ------------------------------------------------------------------ bounds
NumCallers == 3
MaxCalls == 1

Callers == 1..NumCallers

VARIABLES
    \* --- the initialisation gate
    pc,         \* pc[p]: where caller p stands inside Init / Once.Do
    done,       \* sync.Once.done (0 or 1)
    mu,         \* sync.Once.m: 0 when free, else the caller holding it
    err,        \* err[p]: the local variable err of p's running Init call
    ret,        \* ret[p]: what p's last finished Init call returned
    calls,      \* calls[p]: number of Init calls of p that have returned
    seedRuns,   \* how many times the seeding body has been entered
    seedEnded,  \* how many times the seeding body has finished
    seedResult, \* the outcome of the (last) seeding execution
    waited      \* waited[p]: p entered Init while a seeding was running

gateVars == <<pc, done, mu, err, ret, calls, seedRuns, seedEnded, seedResult, waited>>

VARIABLES
    \* --- the read operations
    store,      \* the races table: a sequence of rows, in rowid order
    call,       \* the last read operation and its inputs
    query,      \* the SQL text that operation built (a sequence of fragments)
    args,       \* the positional arguments it built
    qErr,       \* the error r.db.Query returned for it
    cursor,     \* the rows the store returned for it
    reads,      \* reads[i]: the time.Now() read while mapping outRaces[i]
    outRaces,   \* the race pointers returned (Get: one; List: the slice),
                \* each <<>> for nil or <<race>>
    outErr      \* the error returned

readVars == <<store, call, query, args, qErr, cursor, reads, outRaces, outErr>>

vars == <<gateVars, readVars>>

\* The outcomes of seed(): nil or an error.
SeedOutcomes == {"nil", "SeedError"}

\* ---------------------------------------------------------- Init / sync.Once

GateInit ==
    /\ pc = [p \in Callers |-> "idle"]
    /\ done = 0
    /\ mu = 0
    /\ err = [p \in Callers |-> "nil"]
    /\ ret = [p \in Callers |-> "none"]
    /\ calls = [p \in Callers |-> 0]
    /\ seedRuns = 0
    /\ seedEnded = 0
    /\ seedResult = "none"
    /\ waited = [p \in Callers |-> FALSE]

\* A caller enters Init: `var err error` (nil), then r.init.Do(...).
InitCall(p) ==
    /\ pc[p] = "idle"
    /\ calls[p] < MaxCalls
    /\ pc' = [pc EXCEPT ![p] = "Do"]
    /\ err' = [err EXCEPT ![p] = "nil"]
    /\ waited' = [waited EXCEPT ![p] = \E q \in Callers : pc[q] = "seed"]
    /\ UNCHANGED <<done, mu, ret, calls, seedRuns, seedEnded, seedResult, readVars>>

\* Once.Do, mutant: the fast path is taken whatever done holds.
OnceDoNoGate(p) ==
    /\ pc[p] = "Do"
    /\ pc' = [pc EXCEPT ![p] = "Return"]
    /\ UNCHANGED <<done, mu, err, ret, calls, seedRuns, seedEnded, seedResult, waited, readVars>>

\* Once.Do: if o.done.Load() == 0 { o.doSlow(f) }.
OnceDo(p) ==
    /\ pc[p] = "Do"
    /\ pc' = [pc EXCEPT ![p] = IF done = 0 THEN "Lock" ELSE "Return"]
    /\ UNCHANGED <<done, mu, err, ret, calls, seedRuns, seedEnded, seedResult, waited, readVars>>

\* doSlow: o.m.Lock() blocks while another caller holds the mutex.
OnceLock(p) ==
    /\ pc[p] = "Lock"
    /\ mu = 0
    /\ mu' = p
    /\ pc' = [pc EXCEPT ![p] = "doSlow"]
    /\ UNCHANGED <<done, err, ret, calls, seedRuns, seedEnded, seedResult, waited, readVars>>

\* doSlow, mutant: the second check of done under the mutex is missing.
OnceDoSlowNoRecheck(p) ==
    /\ pc[p] = "doSlow"
    /\ pc' = [pc EXCEPT ![p] = "seed"]
    /\ seedRuns' = seedRuns + 1
    /\ UNCHANGED <<done, mu, err, ret, calls, seedEnded, seedResult, waited, readVars>>

\* doSlow: if o.done.Load() == 0 { defer o.done.Store(1); f() }; f starts.
OnceDoSlow(p) ==
    /\ pc[p] = "doSlow"
    /\ IF done = 0
         THEN /\ pc' = [pc EXCEPT ![p] = "seed"]
              /\ seedRuns' = seedRuns + 1
         ELSE /\ pc' = [pc EXCEPT ![p] = "Unlock"]
              /\ UNCHANGED seedRuns
    /\ UNCHANGED <<done, mu, err, ret, calls, seedEnded, seedResult, waited, readVars>>

\* The closure body: err = r.seed(); seed finishes with some outcome, which
\* is assigned to the local err of the caller running the closure.
Seed(p) ==
    /\ pc[p] = "seed"
    /\ \E o \in SeedOutcomes :
          /\ seedResult' = o
          /\ err' = [err EXCEPT ![p] = o]
    /\ seedEnded' = seedEnded + 1
    /\ pc' = [pc EXCEPT ![p] = "Store"]
    /\ UNCHANGED <<done, mu, ret, calls, seedRuns, waited, readVars>>

\* doSlow: the deferred o.done.Store(1).
OnceStore(p) ==
    /\ pc[p] = "Store"
    /\ done' = 1
    /\ pc' = [pc EXCEPT ![p] = "Unlock"]
    /\ UNCHANGED <<mu, err, ret, calls, seedRuns, seedEnded, seedResult, waited, readVars>>

\* doSlow: the deferred o.m.Unlock().
OnceUnlock(p) ==
    /\ pc[p] = "Unlock"
    /\ mu' = 0
    /\ pc' = [pc EXCEPT ![p] = "Return"]
    /\ UNCHANGED <<done, err, ret, calls, seedRuns, seedEnded, seedResult, waited, readVars>>

\* Init: return err.
InitReturn(p) ==
    /\ pc[p] = "Return"
    /\ ret' = [ret EXCEPT ![p] = err[p]]
    /\ calls' = [calls EXCEPT ![p] = calls[p] + 1]
    /\ pc' = [pc EXCEPT ![p] = "idle"]
    /\ UNCHANGED <<done, mu, err, seedRuns, seedEnded, seedResult, waited, readVars>>

\* The steps of a call that is under way (everything but entering Init).
Step(p) ==
    \/ OnceDo(p)
    \/ OnceLock(p)
    \/ OnceDoSlow(p)
    \/ Seed(p)
    \/ OnceStore(p)
    \/ OnceUnlock(p)
    \/ InitReturn(p)

\* ------------------------------------------------------------ data shapes

\* Bounds of the read model.
MaxRows == 2
MaxMeeting == 2
MaxMeetingIds == 2
MaxTime == 2

\* ptypes.TimestampProto accepts the instants of [MinValidSeconds,
\* MaxValidSeconds) only (years 1 to 9999); the window is scaled down here.
MinValidSeconds == 0
MaxValidSeconds == 2

\* The stored advertised_start_time values, one of them before the window.
StartTimes == (MinValidSeconds - 1)..MaxTime
\* The values time.Now() takes.
Times == MinValidSeconds..MaxTime

\* nil error, and an error of some kind with its message (fragments).
NoError == [kind |-> "nil", msg |-> <<>>]
Error(kind, msg) == [kind |-> kind, msg |-> msg]

\* A row of the races table. scannable = FALSE stands for a row holding a
\* value rows.Scan cannot convert into its destination (type mismatch).
\* The seeded tables spread the races over the meetings by id.
MeetingOf(id) == (id % MaxMeeting) + 1
RowsOf(id) ==
    [id : {id}, meeting_id : {MeetingOf(id)}, name : {"race"}, number : {id},
     visible : BOOLEAN, advertised_start_time : StartTimes, scannable : {TRUE}]
    \cup
    [id : {id}, meeting_id : {MeetingOf(id)}, name : {"race"}, number : {id},
     visible : {TRUE}, advertised_start_time : {MinValidSeconds}, scannable : {FALSE}]

\* The table contents: row i has the primary key id = i.
Stores ==
    UNION {{s \in [1..n -> UNION {RowsOf(i) : i \in 1..n}] :
              \A i \in 1..n : s[i].id = i} : n \in 0..MaxRows}

\* The identifiers callers pass to Get: decimal numerals, and one that is none.
IdText == <<"1", "2", "3", "4", "5">>
GetIds == {IdText[i] : i \in 1..(MaxRows + 1)} \cup {"x"}

\* racing.ListRacesRequestFilter; a nil filter has isNil = TRUE. Visible is
\* an optional bool: <<>> when absent, <<b>> when present.
NilFilter == [isNil |-> TRUE, MeetingIds |-> <<>>, Visible |-> <<>>]
MeetingIdLists == UNION {[1..n -> 1..MaxMeeting] : n \in 0..MaxMeetingIds}
Filters ==
    {NilFilter} \cup
    [isNil : {FALSE}, MeetingIds : MeetingIdLists, Visible : {<<>>, <<TRUE>>, <<FALSE>>}]

\* racing.ListRacesRequestOrder; a nil order has isNil = TRUE.
NilOrder == [isNil |-> TRUE, OrderBy |-> "", OrderType |-> ""]
OrderBys == {"", "meeting_id", "nosuch"}
OrderTypes == {"", "ASC", "DESC", "ASCENDING", "DESCENDING"}
Orders == {NilOrder} \cup [isNil : {FALSE}, OrderBy : OrderBys, OrderType : OrderTypes]

\* ------------------------------------------------------------ string helpers

\* strings.Repeat(s, count)
RECURSIVE Repeat(_, _)
Repeat(s, count) == IF count <= 0 THEN <<>> ELSE s \o Repeat(s, count - 1)

\* strings.Join(elems, sep)
RECURSIVE Join(_, _)
Join(elems, sep) ==
    IF Len(elems) = 0 THEN <<>>
    ELSE IF Len(elems) = 1 THEN elems[1]
    ELSE elems[1] \o sep \o Join(Tail(elems), sep)

\* The number of fragments of q equal to f.
Count(f, q) == Cardinality({i \in 1..Len(q) : q[i] = f})

HasFrag(f, q) == \E i \in 1..Len(q) : q[i] = f

\* ------------------------------------------------------------ query builder

\* getRaceQueries()[racesList]: the base projection query.
racesList ==
    <<"SELECT id, meeting_id, name, number, visible, advertised_start_time FROM races">>

\* applyFilter, mutant: one placeholder too many in the IN list.
applyFilterExtraPlaceholder(q, filter) ==
    IF filter.isNil THEN [query |-> q, args |-> <<>>]
    ELSE
      LET n == Len(filter.MeetingIds)
          c1 == IF n > 0
                  THEN <<(<<"meeting_id IN (">> \o Repeat(<<"?", ",">>, n) \o <<"?", ")">>)>>
                  ELSE <<>>
          a1 == IF n > 0 THEN filter.MeetingIds ELSE <<>>
          c2 == IF filter.Visible # <<>> THEN <<(<<"visible = ", "?">>)>> ELSE <<>>
          a2 == IF filter.Visible # <<>> THEN <<filter.Visible[1]>> ELSE <<>>
          clauses == c1 \o c2
      IN [query |-> IF Len(clauses) # 0
                      THEN q \o <<" WHERE ">> \o Join(clauses, <<" AND ">>)
                      ELSE q,
          args |-> a1 \o a2]

\* applyFilter(query, filter) -> (query, args)
applyFilter(q, filter) ==
    IF filter.isNil THEN [query |-> q, args |-> <<>>]
    ELSE
      LET n == Len(filter.MeetingIds)
          \* "meeting_id IN (" + strings.Repeat("?,", n-1) + "?)"
          c1 == IF n > 0
                  THEN <<(<<"meeting_id IN (">> \o Repeat(<<"?", ",">>, n - 1) \o <<"?", ")">>)>>
                  ELSE <<>>
          a1 == IF n > 0 THEN filter.MeetingIds ELSE <<>>
          c2 == IF filter.Visible # <<>> THEN <<(<<"visible = ", "?">>)>> ELSE <<>>
          a2 == IF filter.Visible # <<>> THEN <<filter.Visible[1]>> ELSE <<>>
          clauses == c1 \o c2
      IN [query |-> IF Len(clauses) # 0
                      THEN q \o <<" WHERE ">> \o Join(clauses, <<" AND ">>)
                      ELSE q,
          args |-> a1 \o a2]

\* applyOrder, mutant: any non-empty direction is appended.
applyOrderAnyDirection(q, order) ==
    IF ~order.isNil
      THEN LET q1 == IF order.OrderBy # ""
                       THEN q \o <<" ORDER BY  ", order.OrderBy, " ">>
                       ELSE q
           IN IF order.OrderBy # "" /\ order.OrderType # ""
                THEN q1 \o <<order.OrderType>>
                ELSE q1
      ELSE q \o <<" ORDER BY advertised_start_time ">>

\* applyOrder, mutant: the default clause also stands in for an empty column.
applyOrderDefaultOnEmpty(q, order) ==
    IF ~order.isNil /\ order.OrderBy # ""
      THEN LET q1 == q \o <<" ORDER BY  ", order.OrderBy, " ">>
           IN IF order.OrderType = "ASC" \/ order.OrderType = "DESC"
                THEN q1 \o <<order.OrderType>>
                ELSE q1
      ELSE q \o <<" ORDER BY advertised_start_time ">>

\* applyOrder(query, order) -> query
applyOrder(q, order) ==
    IF ~order.isNil
      THEN LET \* fmt.Sprintf(" ORDER BY  %s ", order.OrderBy)
               q1 == IF order.OrderBy # ""
                       THEN q \o <<" ORDER BY  ", order.OrderBy, " ">>
                       ELSE q
           IN IF order.OrderBy # ""
                 /\ (order.OrderType = "ASC" \/ order.OrderType = "DESC")
                THEN q1 \o <<order.OrderType>>
                ELSE q1
      ELSE q \o <<" ORDER BY advertised_start_time ">>

\* ------------------------------------------------------------------ the store

\* The columns of the races table.
Columns == {"id", "meeting_id", "name", "number", "visible", "advertised_start_time"}

\* The sort key of a row under a column (all names are equal here).
ColKey(row, col) ==
    CASE col = "id" -> row.id
      [] col = "meeting_id" -> row.meeting_id
      [] col = "number" -> row.number
      [] col = "visible" -> IF row.visible THEN 1 ELSE 0
      [] col = "advertised_start_time" -> row.advertised_start_time
      [] OTHER -> 0

\* The integer an id argument denotes for the INTEGER column id (0: none).
AsInteger(s) ==
    IF \E i \in 1..Len(IdText) : IdText[i] = s
      THEN CHOOSE i \in 1..Len(IdText) : IdText[i] = s
      ELSE 0

\* Stable insertion sort of rows by sign * key.
InsertRow(r, sorted, col, sign) ==
    LET pos == Cardinality({i \in 1..Len(sorted) :
                   sign * ColKey(sorted[i], col) <= sign * ColKey(r, col)})
    IN SubSeq(sorted, 1, pos) \o <<r>> \o SubSeq(sorted, pos + 1, Len(sorted))

RECURSIVE SortRows(_, _, _)
SortRows(rows, col, sign) ==
    IF Len(rows) = 0 THEN <<>>
    ELSE InsertRow(rows[Len(rows)], SortRows(SubSeq(rows, 1, Len(rows) - 1), col, sign),
                   col, sign)

\* r.db.Query(query, args...): the store runs the statement over the table.
\* fault stands for a failure of the store itself (connection, I/O).
dbQuery(q, a, fault, table) ==
    LET hasId == HasFrag(" WHERE id = ", q)
        hasVisible == HasFrag("visible = ", q)
        hasIn == HasFrag("meeting_id IN (", q)
        nIn == IF hasIn THEN Count("?", q) - (IF hasVisible THEN 1 ELSE 0) ELSE 0
        hasOrder == HasFrag(" ORDER BY  ", q)
        col == IF hasOrder
                 THEN q[(CHOOSE i \in 1..Len(q) : q[i] = " ORDER BY  ") + 1]
                 ELSE "advertised_start_time"
        sorted == hasOrder \/ HasFrag(" ORDER BY advertised_start_time ", q)
        sign == IF q[Len(q)] = "DESC" THEN -1 ELSE 1
        Match(row) ==
            /\ hasId => row.id = AsInteger(a[1])
            /\ hasIn => \E i \in 1..nIn : a[i] = row.meeting_id
            /\ hasVisible => a[Len(a)] = row.visible
        hits == SelectSeq(table, Match)
    IN IF fault
         THEN [err |-> Error("ExecutionError", <<"store failure">>), rows |-> <<>>]
       ELSE IF Count("?", q) # Len(a)
         THEN [err |-> Error("ExecutionError", <<"wrong number of arguments">>), rows |-> <<>>]
       ELSE IF col \notin Columns
         THEN [err |-> Error("ExecutionError", <<"no such column: ", col>>), rows |-> <<>>]
       ELSE [err |-> NoError,
             rows |-> IF sorted THEN SortRows(hits, col, sign) ELSE hits]

\* ------------------------------------------------------------------ row mapper

\* rows.Scan(...) on a cursor standing on cur (<<>>: no current row, the
\* cursor was closed by rows.Next() returning false). database/sql gives
\* sql.ErrNoRows from Row.Scan only, never from Rows.Scan.
RowsScan(cur) ==
    IF Len(cur) = 0 THEN "ErrRowsClosed"
    ELSE IF ~cur[1].scannable THEN "ScanError"
    ELSE "nil"

\* ptypes.TimestampProto(t)
TimestampProto(t) ==
    IF t < MinValidSeconds \/ t >= MaxValidSeconds
      THEN [ts |-> [seconds |-> 0, nanos |-> 0],
            err |-> Error("ConversionError", <<"timestamp out of range">>)]
      ELSE [ts |-> [seconds |-> t, nanos |-> 0], err |-> NoError]

\* The status getDBRace derives, mutant: a race starting right now is closed.
StatusAtOrAfter(n, advertisedStart) ==
    IF n >= advertisedStart THEN "CLOSE" ELSE "OPEN"

\* time.Now().After(advertisedStart) ? "CLOSE" : "OPEN"
Status(n, advertisedStart) ==
    IF n > advertisedStart THEN "CLOSE" ELSE "OPEN"

\* getDBRace(rows) -> (*Race, error); n is what time.Now() returns. The race
\* pointer is <<>> for nil and <<race>> otherwise.
getDBRace(cur, n) ==
    LET scanErr == RowsScan(cur) IN
    IF scanErr # "nil"
      THEN IF scanErr = "ErrNoRows"
             THEN [race |-> <<>>, err |-> NoError]
             ELSE [race |-> <<>>, err |-> Error(scanErr, <<"sql: ", scanErr>>)]
      ELSE
        LET row == cur[1]
            conv == TimestampProto(row.advertised_start_time)
        IN IF conv.err # NoError
             THEN [race |-> <<>>, err |-> conv.err]
             ELSE [race |-> <<[Id |-> row.id,
                               MeetingId |-> row.meeting_id,
                               Name |-> row.name,
                               Number |-> row.number,
                               Visible |-> row.visible,
                               AdvertisedStartTime |-> conv.ts,
                               Status |-> Status(n, row.advertised_start_time)]>>,
                   err |-> NoError]

\* scanRaces, mutant: on a mapping error the races collected so far are returned.
RECURSIVE scanRacesPartial(_, _, _, _)
scanRacesPartial(rows, rd, i, races) ==
    IF i > Len(rows) THEN [races |-> races, err |-> NoError]
    ELSE LET m == getDBRace(<<rows[i]>>, rd[i])
         IN IF m.err # NoError
              THEN [races |-> races, err |-> m.err]
              ELSE scanRacesPartial(rows, rd, i + 1, Append(races, m.race))

\* scanRaces(rows) -> ([]*Race, error): the loop from row i on, races holding
\* what was appended so far; rd[i] is time.Now() while row i is mapped.
RECURSIVE scanRaces(_, _, _, _)
scanRaces(rows, rd, i, races) ==
    IF i > Len(rows) THEN [races |-> races, err |-> NoError]
    ELSE LET m == getDBRace(<<rows[i]>>, rd[i])
         IN IF m.err # NoError
              THEN [races |-> <<>>, err |-> m.err]
              ELSE scanRaces(rows, rd, i + 1, Append(races, m.race))

\* ------------------------------------------------------------------ Get, List

\* fmt.Errorf("cannot find race id: %s", Id)
NotFound(Id) == Error("NotFound", <<"cannot find race id: ", Id>>)

\* Get, mutant: the result of getDBRace is returned as it is.
GetAsMapped(Id, fault, n, table) ==
    LET q == racesList \o <<" WHERE id = ", "?", " ">>
        a == <<Id>>
        r == dbQuery(q, a, fault, table)
        m == getDBRace(IF Len(r.rows) > 0 THEN <<r.rows[1]>> ELSE <<>>, n)
    IN IF r.err # NoError
         THEN [query |-> q, args |-> a, qErr |-> r.err, cursor |-> <<>>,
               races |-> <<(<<>>)>>, err |-> r.err]
         ELSE [query |-> q, args |-> a, qErr |-> r.err, cursor |-> r.rows,
               races |-> <<m.race>>, err |-> m.err]

\* Get(Id) -> (*Race, error); races holds the one pointer returned.
Get(Id, fault, n, table) ==
    LET q == racesList \o <<" WHERE id = ", "?", " ">>
        a == <<Id>>
        r == dbQuery(q, a, fault, table)
        \* rows.Next(), then getDBRace on whatever the cursor stands on
        m == getDBRace(IF Len(r.rows) > 0 THEN <<r.rows[1]>> ELSE <<>>, n)
    IN IF r.err # NoError
         THEN [query |-> q, args |-> a, qErr |-> r.err, cursor |-> <<>>,
               races |-> <<(<<>>)>>, err |-> r.err]
         ELSE [query |-> q, args |-> a, qErr |-> r.err, cursor |-> r.rows,
               races |-> <<m.race>>,
               err |-> IF Len(m.race) = 0 THEN NotFound(Id) ELSE m.err]

\* List(filter, order) -> ([]*Race, error)
List(filter, order, fault, rd, table) ==
    LET f == applyFilter(racesList, filter)
        q == applyOrder(f.query, order)
        r == dbQuery(q, f.args, fault, table)
        s == scanRaces(r.rows, rd, 1, <<>>)
    IN IF r.err # NoError
         THEN [query |-> q, args |-> f.args, qErr |-> r.err, cursor |-> <<>>,
               races |-> <<>>, err |-> r.err]
         ELSE [query |-> q, args |-> f.args, qErr |-> r.err, cursor |-> r.rows,
               races |-> s.races, err |-> s.err]

\* ------------------------------------------------------------------ read actions

NoCall == [op |-> "none", Id |-> "", filter |-> NilFilter, order |-> NilOrder]

\* The readings of a clock that never runs backwards, one per row.
ClockReadings ==
    {rd \in [1..MaxRows -> Times] : \A i \in 1..(MaxRows - 1) : rd[i] <= rd[i + 1]}

ReadIdle ==
    /\ call = NoCall
    /\ query = <<>>
    /\ args = <<>>
    /\ qErr = NoError
    /\ cursor = <<>>
    /\ reads = <<>>
    /\ outRaces = <<>>
    /\ outErr = NoError

\* What a read leaves behind: its inputs, what it built and what it returned.
Returned(c, r, rd) ==
    /\ call' = c
    /\ query' = r.query
    /\ args' = r.args
    /\ qErr' = r.qErr
    /\ cursor' = r.cursor
    /\ reads' = SubSeq(rd, 1, Len(r.races))
    /\ outRaces' = r.races
    /\ outErr' = r.err
    /\ UNCHANGED <<store, gateVars>>

\* A caller runs Get(Id). The reads keep no state of their own, so a
\* behaviour carries one read: every read starts from the state that the
\* table content alone determines.
GetCall ==
    /\ call = NoCall
    /\ \E Id \in GetIds, fault \in BOOLEAN, n \in Times :
       Returned([op |-> "Get", Id |-> Id, filter |-> NilFilter, order |-> NilOrder],
                Get(Id, fault, n, store), <<n>>)

\* A caller runs List(filter, order), the inputs drawn from F and O.
ListCall(F, O) ==
    /\ call = NoCall
    /\ \E filter \in F, order \in O, fault \in BOOLEAN, rd \in ClockReadings :
       Returned([op |-> "List", Id |-> "", filter |-> filter, order |-> order],
                List(filter, order, fault, rd, store), rd)

\* ------------------------------------------------------------ specifications

\* The gate alone: no read is under way and the table is empty.
Init == GateInit /\ ReadIdle /\ store = <<>>

Next == \E p \in Callers : InitCall(p) \/ Step(p)

Spec == Init /\ [][Next]_vars

\* The Go scheduler runs every runnable goroutine eventually, and a goroutine
\* blocked in Mutex.Lock is woken once the mutex is free.
FairSpec == Spec /\ \A p \in Callers : WF_vars(Step(p))

\* Reads over every table content, with a few filters and orders.
ReadFilters ==
    {NilFilter,
     [isNil |-> FALSE, MeetingIds |-> <<1>>, Visible |-> <<>>],
     [isNil |-> FALSE, MeetingIds |-> <<>>, Visible |-> <<TRUE>>]}
ReadOrders ==
    {NilOrder,
     [isNil |-> FALSE, OrderBy |-> "meeting_id", OrderType |-> "DESC"],
     [isNil |-> FALSE, OrderBy |-> "nosuch", OrderType |-> ""]}

InitRead == GateInit /\ ReadIdle /\ store \in Stores

NextRead == GetCall \/ ListCall(ReadFilters, ReadOrders)

SpecRead == InitRead /\ [][NextRead]_vars

\* The query builder over every filter and order, on two tables.
BuildStores == {s \in Stores : \A i \in 1..Len(s) :
                   /\ s[i].scannable
                   /\ s[i].visible = (i = 1)
                   /\ s[i].advertised_start_time = MinValidSeconds}

InitBuild == GateInit /\ ReadIdle /\ store \in BuildStores

NextBuild == ListCall(Filters, Orders)

SpecBuild == InitBuild /\ [][NextBuild]_vars

\* ------------------------------------------------------------------ claims

\* A row getDBRace maps without error: it scans, and its start time converts.
Mappable(row) ==
    /\ row.scannable
    /\ row.advertised_start_time >= MinValidSeconds
    /\ row.advertised_start_time < MaxValidSeconds

\* The race entity that stands for a row, whatever its status.
RaceOfRow(race, row) ==
    /\ race.Id = row.id
    /\ race.MeetingId = row.meeting_id
    /\ race.Name = row.name
    /\ race.Number = row.number
    /\ race.Visible = row.visible
    /\ race.AdvertisedStartTime.seconds = row.advertised_start_time

\* C1: over any interleaving of Init calls the seeding body is entered at
\* most once, and exactly once as soon as one Init call has returned.
C1_SeedExactlyOnce ==
    /\ seedRuns <= 1
    /\ (\E p \in Callers : calls[p] > 0) => seedRuns = 1

C1_Witness ==
    /\ \A p \in Callers : calls[p] >= 1
    /\ seedRuns = 1
    /\ seedResult = "SeedError"

\* C2: every Init call that has returned returned the outcome of the single
\* seeding execution (nil if it succeeded, its error if it failed).
C2_SameOutcome ==
    \A p \in Callers : calls[p] > 0 => ret[p] = seedResult

\* C3: no Init call returns before the seeding execution has completed, and
\* under fair scheduling every Init call that was entered returns.
C3_BlockUntilSeeded ==
    /\ [](\A p \in Callers : (pc[p] = "Return" \/ calls[p] > 0) => seedEnded >= 1)
    /\ \A p \in Callers : (pc[p] # "idle") ~> (pc[p] = "idle")

C3_Witness ==
    \E p \in Callers : waited[p] /\ calls[p] > 0 /\ seedEnded = 1

\* C4: when the store query succeeds, Get(id) on a table without a row of
\* that id returns no race and a NotFound error naming id; on a table with a
\* mappable row of that id it returns the race of that row and no error.
C4_GetNotFound ==
    (call.op = "Get" /\ qErr = NoError) =>
      LET k == AsInteger(call.Id) IN
      /\ (\A i \in 1..Len(store) : store[i].id # k) =>
            /\ outRaces = <<(<<>>)>>
            /\ outErr.kind = "NotFound"
            /\ HasFrag(call.Id, outErr.msg)
      /\ \A i \in 1..Len(store) : (store[i].id = k /\ Mappable(store[i])) =>
            /\ outErr = NoError
            /\ Len(outRaces) = 1 /\ Len(outRaces[1]) = 1
            /\ RaceOfRow(outRaces[1][1], store[i])

C4_Witness ==
    /\ call.op = "Get"
    /\ qErr = NoError
    /\ Len(store) = MaxRows
    /\ \A i \in 1..Len(store) : store[i].id # AsInteger(call.Id)
    /\ outErr.kind = "NotFound"

\* C5: List returns either an error and no races (the query failed, or some
\* returned row failed to map: the error of the first such row), or no error
\* and the races of all returned rows, in the order the store returned them.
C5_ListAllOrNothing ==
    call.op = "List" =>
      LET bad == {i \in 1..Len(cursor) : ~Mappable(cursor[i])} IN
      /\ outErr # NoError => outRaces = <<>>
      /\ outErr # NoError <=> (qErr # NoError \/ bad # {})
      /\ qErr # NoError => outErr = qErr
      /\ (qErr = NoError /\ bad # {}) =>
            LET j == CHOOSE i \in bad : \A h \in bad : i <= h
            IN outErr.kind = IF cursor[j].scannable THEN "ConversionError" ELSE "ScanError"
      /\ outErr = NoError =>
            /\ Len(outRaces) = Len(cursor)
            /\ \A i \in 1..Len(cursor) :
                  Len(outRaces[i]) = 1 /\ RaceOfRow(outRaces[i][1], cursor[i])

C5_Witness ==
    /\ call.op = "List"
    /\ Len(cursor) >= 2
    /\ Mappable(cursor[1])
    /\ ~Mappable(cursor[2])
    /\ outErr # NoError
    /\ outRaces = <<>>

\* C6 (as amended): the status of a mapped race is "CLOSE" exactly when the
\* time read while mapping it is strictly after its advertised start time,
\* and "OPEN" otherwise; equal times give "OPEN".
C6_StatusCloseIffAfter ==
    \A i \in 1..Len(outRaces) :
       Len(outRaces[i]) = 1 =>
          LET T == cursor[i].advertised_start_time
              N == reads[i]
          IN /\ outRaces[i][1].Status = "CLOSE" <=> N > T
             /\ outRaces[i][1].Status = "OPEN" <=> ~(N > T)

\* C6 (as claimed): the status is CLOSED exactly when N is strictly after T,
\* and OPEN otherwise.
C6_StatusClosedIffAfter ==
    \A i \in 1..Len(outRaces) :
       Len(outRaces[i]) = 1 =>
          LET T == cursor[i].advertised_start_time
              N == reads[i]
          IN /\ outRaces[i][1].Status = "CLOSED" <=> N > T
             /\ outRaces[i][1].Status = "OPEN" <=> ~(N > T)

C6_Witness ==
    /\ call.op = "List"
    /\ Len(outRaces) >= 2
    /\ \E i, j \in 1..Len(outRaces) :
          /\ reads[i] = cursor[i].advertised_start_time
          /\ outRaces[i][1].Status = "OPEN"
          /\ reads[j] > cursor[j].advertised_start_time
          /\ outRaces[j][1].Status = "CLOSE"

\* The shape of the end of the query for a named column: the ORDER BY
\* clause, ending with the direction exactly when it is one of dirs.
OrderClauseEnds(dirs) ==
    LET n == Len(query)
        ot == call.order.OrderType
        by == call.order.OrderBy
    IN IF ot \in dirs
         THEN /\ query[n] = ot
              /\ query[n - 1] = " "
              /\ query[n - 2] = by
              /\ query[n - 3] = " ORDER BY  "
         ELSE /\ query[n] = " "
              /\ query[n - 1] = by
              /\ query[n - 2] = " ORDER BY  "

\* C7 (as amended): for an order with a non-empty column name the ORDER BY
\* clause ends with the direction exactly when the direction is the literal
\* "ASC" or "DESC"; any other value, "ASCENDING", "DESCENDING" and the empty
\* string included, is left out.
C7_DirectionAscDesc ==
    (call.op = "List" /\ ~call.order.isNil /\ call.order.OrderBy # "") =>
       OrderClauseEnds({"ASC", "DESC"})

\* C7 (as claimed): the clause ends with the direction exactly when the
\* direction is the literal "ASCENDING" or "DESCENDING".
C7_DirectionAscendingDescending ==
    (call.op = "List" /\ ~call.order.isNil /\ call.order.OrderBy # "") =>
       OrderClauseEnds({"ASCENDING", "DESCENDING"})

C7_Witness ==
    /\ call.op = "List"
    /\ ~call.order.isNil
    /\ call.order.OrderBy = "meeting_id"
    /\ call.order.OrderType = "DESC"
    /\ query[Len(query)] = "DESC"
    /\ Len(args) > 0

DefaultOrderClause == " ORDER BY advertised_start_time "

\* C8 (as amended): with no order structure the query ends with the default
\* ORDER BY clause on advertised_start_time; with an order structure whose
\* column name is empty the query carries no ORDER BY clause and no
\* direction, whatever direction was supplied.
C8_DefaultOnlyWithoutOrder ==
    call.op = "List" =>
      /\ call.order.isNil => query[Len(query)] = DefaultOrderClause
      /\ (~call.order.isNil /\ call.order.OrderBy = "") =>
            /\ ~HasFrag(DefaultOrderClause, query)
            /\ ~HasFrag(" ORDER BY  ", query)
            /\ \A d \in OrderTypes : d # "" => ~HasFrag(d, query)

\* C8 (as claimed): with an absent or empty column name the query carries
\* the default ORDER BY clause, whatever direction was supplied.
C8_DefaultOnAbsentOrEmpty ==
    (call.op = "List" /\ (call.order.isNil \/ call.order.OrderBy = "")) =>
       query[Len(query)] = DefaultOrderClause

C8_Witness ==
    /\ call.op = "List"
    /\ ~call.order.isNil
    /\ call.order.OrderBy = ""
    /\ call.order.OrderType = "DESC"
    /\ ~HasFrag(DefaultOrderClause, query)
    /\ Len(args) > 0

\* The number of placeholders inside the membership clause of q.
InPlaceholders(q) ==
    LET a == CHOOSE i \in 1..Len(q) : q[i] = "meeting_id IN ("
        b == CHOOSE i \in 1..Len(q) : q[i] = ")"
    IN Cardinality({i \in a..b : q[i] = "?"})

\* C9: n > 0 meeting ids give a membership clause of exactly n placeholders
\* and are the first n arguments, in order; a present visibility flag adds
\* one placeholder and one argument after them; the placeholders of the
\* query are as many as the arguments.
C9_PlaceholdersMatchArgs ==
    call.op = "List" =>
      LET n == Len(call.filter.MeetingIds)
          v == Len(call.filter.Visible)
      IN /\ Count("?", query) = Len(args)
         /\ Len(args) = n + v
         /\ n > 0 => /\ InPlaceholders(query) = n
                     /\ \A i \in 1..n : args[i] = call.filter.MeetingIds[i]
         /\ n = 0 => ~HasFrag("meeting_id IN (", query)
         /\ v = 1 => /\ HasFrag("visible = ", query)
                     /\ args[n + 1] = call.filter.Visible[1]
         /\ v = 0 => ~HasFrag("visible = ", query)

C9_Witness ==
    /\ call.op = "List"
    /\ Len(call.filter.MeetingIds) = MaxMeetingIds
    /\ call.filter.Visible = <<FALSE>>
    /\ Len(args) = MaxMeetingIds + 1
    /\ Count("?", query) = MaxMeetingIds + 1

\* C10: when the store returns a row for the requested id and that row fails
\* to map, Get returns the mapping or conversion error, not NotFound.
C10_MappingErrorPropagated ==
    (call.op = "Get" /\ qErr = NoError) =>
      \A i \in 1..Len(store) :
         (store[i].id = AsInteger(call.Id) /\ ~Mappable(store[i])) =>
            outErr.kind = IF store[i].scannable THEN "ConversionError" ELSE "ScanError"

====
